---------------------------- MODULE Spec2Model ----------------------------
(***************************************************************************)
(* A model of two subsystems of Eigen:                                     *)
(*   - the assignment engine, MatrixBase::lazyAssign / operator=           *)
(*     (Eigen/src/Core/OperatorEquals.h), under SpecAssign;                *)
(*   - the ConjugateGradient solver and its solve wrappers                 *)
(*     (unsupported/Eigen/src/IterativeSolvers/ConjugateGradient.h),       *)
(*     under SpecCG.                                                       *)
(* Scalars of the solver are exact rationals extended with the IEEE        *)
(* special values that a division by zero produces (inf, nan).             *)
(***************************************************************************)
EXTENDS Integers, Sequences, FiniteSets, TLC

VARIABLES
  \* ---- assignment engine ----
  dst,        \* the destination container of the assignment
  src,        \* the source expression of the assignment
  apc,        \* "ready" before the assignment statement, "done" after it
  aresult,    \* outcome of the assignment: "none", "ok", "DimensionMismatch"
  apath,      \* the copy strategy that ran: "none", "unrolled-vector", ...
  \* ---- conjugate gradient solver ----
  m_isInitialized, mp_matrix, m_preconditioner,
  m_maxIterations, m_tolerance,
  m_error, m_iterations, m_info,
  wrapper,    \* the solve_retval object alive in the caller, or NoWrapper
  x,          \* the caller's destination vector
  last,       \* the last member function called and how it ended
  runs        \* number of CG runs started so far (history variable)

avars == <<dst, src, apc, aresult, apath>>
cvars == <<m_isInitialized, mp_matrix, m_preconditioner, m_maxIterations,
           m_tolerance, m_error, m_iterations, m_info, wrapper, x, last, runs>>
vars == <<avars, cvars>>

-----------------------------------------------------------------------------
(* Bounds of the model *)

\* largest extent (rows or cols) of an operand of the assignment
MaxExtent == 2
\* the source coefficients are SrcBase(seed) + position, seed in 0..MaxSeed
MaxSeed == 1
\* the expensive per-coefficient cost tried besides cost 1
HighCost == 50
\* largest diagonal coefficient of a system matrix
MaxDiag == 1
\* setMaxIterations is tried with 0..MaxItersBound
MaxItersBound == 1
\* number of solves evaluated in one behaviour
MaxRuns == 2

-----------------------------------------------------------------------------
(* Constants of the program *)

\* the "unknown until run time" sentinel of the compile-time extents
Dynamic == 10000
\* the unrolling budget
EIGEN_UNROLLING_LIMIT == 100
\* m_maxIterations as set by init()
DefaultMaxIterations == 1000


-----------------------------------------------------------------------------
(* Shape traits and coefficient access of an operand.  An operand is a      *)
(* record: its compile-time extents, its run-time extents, its storage      *)
(* order and its coefficient buffer (in storage order, 1-based).            *)

SizeAtCompileTime(m) ==
  IF m.RowsAtCompileTime = Dynamic \/ m.ColsAtCompileTime = Dynamic
  THEN Dynamic
  ELSE m.RowsAtCompileTime * m.ColsAtCompileTime

IsVectorAtCompileTime(m) ==
  m.RowsAtCompileTime = 1 \/ m.ColsAtCompileTime = 1

size(m) == m.rows * m.cols

isVector(m) == m.rows = 1 \/ m.cols = 1

\* position of coefficient (i, j) in the buffer, for the operand's storage order
StorageIndex(m, i, j) ==
  IF m.rowMajor THEN i * m.cols + j + 1 ELSE j * m.rows + i + 1

coeff(m, i, j) == m.buf[StorageIndex(m, i, j)]

\* dst.coeffRef(i, j) = v; the write is counted
coeffRefWrite(d, i, j, v) ==
  [d EXCEPT !.buf[StorageIndex(d, i, j)] = v,
            !.writes[StorageIndex(d, i, j)] = @ + 1]

\* coeff(index) / coeffRef(index) of a vector: the index runs along the
\* extent that is not fixed to 1 at compile time
RowOfIndex(m, index) == IF m.RowsAtCompileTime = 1 THEN 0 ELSE index
ColOfIndex(m, index) == IF m.RowsAtCompileTime = 1 THEN index ELSE 0

RECURSIVE ProductCoeff(_, _, _, _, _)
\* the sum over k < inner of lhs(i, k) * rhs(k, j)
ProductCoeff(lhs, rhs, i, j, inner) ==
  IF inner = 0 THEN 0
  ELSE ProductCoeff(lhs, rhs, i, j, inner - 1)
         + coeff(lhs, i, inner - 1) * coeff(rhs, inner - 1, j)

\* An expression that has an operand field is the lazy product dst * operand:
\* it refers to the destination itself and computes a coefficient from what
\* the destination holds at the moment of the read.
RefersToDst(s) == "operand" \in DOMAIN s

\* src.coeff(row, col), read while the destination is d
coeffOf(d, s, row, col) ==
  IF RefersToDst(s) THEN ProductCoeff(d, s.operand, row, col, d.cols)
  ELSE coeff(s, row, col)

\* dst.coeffRef(row, col) = src.coeff(row, col)
AssignCoeff(d, s, row, col) ==
  coeffRefWrite(d, row, col, coeffOf(d, s, row, col))

\* dst.coeffRef(index) = src.coeff(index)
AssignIndex(d, s, index) ==
  coeffRefWrite(d, RowOfIndex(d, index), ColOfIndex(d, index),
                coeffOf(d, s, RowOfIndex(s, index), ColOfIndex(s, index)))

-----------------------------------------------------------------------------
(* The unrollers: compile-time recursion on UnrollCount *)

\* a variant whose recursion ends without the write of coefficient (0, 0)
RECURSIVE MatrixUnrollerNoBaseWrite(_, _, _)
MatrixUnrollerNoBaseWrite(d, s, UnrollCount) ==
  IF UnrollCount = 0 \/ UnrollCount = Dynamic \/ UnrollCount = 1 THEN d
  ELSE AssignCoeff(MatrixUnrollerNoBaseWrite(d, s, UnrollCount - 1), s,
                   (UnrollCount - 1) % d.RowsAtCompileTime,
                   (UnrollCount - 1) \div d.RowsAtCompileTime)

RECURSIVE ei_matrix_operator_equals_unroller(_, _, _)
ei_matrix_operator_equals_unroller(d, s, UnrollCount) ==
  IF UnrollCount = 0 \/ UnrollCount = Dynamic THEN d
  ELSE IF UnrollCount = 1 THEN AssignCoeff(d, s, 0, 0)
  ELSE AssignCoeff(ei_matrix_operator_equals_unroller(d, s, UnrollCount - 1), s,
                   (UnrollCount - 1) % d.RowsAtCompileTime,
                   (UnrollCount - 1) \div d.RowsAtCompileTime)

\* a variant whose recursion ends without the write of coefficient 0
RECURSIVE VectorUnrollerNoBaseWrite(_, _, _)
VectorUnrollerNoBaseWrite(d, s, UnrollCount) ==
  IF UnrollCount = 0 \/ UnrollCount = Dynamic \/ UnrollCount = 1 THEN d
  ELSE AssignIndex(VectorUnrollerNoBaseWrite(d, s, UnrollCount - 1), s,
                   UnrollCount - 1)

RECURSIVE ei_vector_operator_equals_unroller(_, _, _)
ei_vector_operator_equals_unroller(d, s, UnrollCount) ==
  IF UnrollCount = 0 \/ UnrollCount = Dynamic THEN d
  ELSE IF UnrollCount = 1 THEN AssignIndex(d, s, 0)
  ELSE AssignIndex(ei_vector_operator_equals_unroller(d, s, UnrollCount - 1), s,
                   UnrollCount - 1)

-----------------------------------------------------------------------------
(* The run-time loops of lazyAssign *)

\* for(int i = 0; i < size(); i++) coeffRef(i) = other.coeff(i);
RECURSIVE VectorLoop(_, _, _)
VectorLoop(d, s, i) ==
  IF i < size(d) THEN VectorLoop(AssignIndex(d, s, i), s, i + 1) ELSE d

\* for(j...) for(i...) coeffRef(i, j) = other.coeff(i, j);
RECURSIVE ColMajorLoop(_, _, _, _)
ColMajorLoop(d, s, j, i) ==
  IF j >= d.cols THEN d
  ELSE IF i >= d.rows THEN ColMajorLoop(d, s, j + 1, 0)
  ELSE ColMajorLoop(AssignCoeff(d, s, i, j), s, j, i + 1)

\* for(i...) for(j...) coeffRef(i, j) = other.coeff(i, j);
RECURSIVE RowMajorLoop(_, _, _, _)
RowMajorLoop(d, s, i, j) ==
  IF i >= d.rows THEN d
  ELSE IF j >= d.cols THEN RowMajorLoop(d, s, i + 1, 0)
  ELSE RowMajorLoop(AssignCoeff(d, s, i, j), s, i, j + 1)

-----------------------------------------------------------------------------
(* lazyAssign and operator= *)

\* a variant of the unrolling test that leaves the cost of the source out
unrollIgnoringCost(d, s) == SizeAtCompileTime(d) <= EIGEN_UNROLLING_LIMIT

unroll(d, s) == SizeAtCompileTime(d) * s.CoeffReadCost <= EIGEN_UNROLLING_LIMIT

\* a variant of the vector assertion that lets a larger source through
VectorSizeCheckAtMost(d, s) == size(d) <= size(s)

\* the shape assertion of the path taken
VectorSizeCheck(d, s) == size(d) = size(s)
MatrixShapeCheck(d, s) == d.rows = s.rows /\ d.cols = s.cols

\* column-major traversal unless only the column count is fixed at compile time
TraverseColMajor(d) ==
  d.ColsAtCompileTime = Dynamic \/ d.RowsAtCompileTime # Dynamic

\* a variant of lazyAssign without the vector path
lazyAssignMatrixOnly(d, s) ==
  IF ~MatrixShapeCheck(d, s)
  THEN [result |-> "DimensionMismatch", dst |-> d, path |-> "none"]
  ELSE IF unroll(d, s)
  THEN [result |-> "ok", path |-> "unrolled-matrix",
        dst |-> ei_matrix_operator_equals_unroller(d, s, SizeAtCompileTime(d))]
  ELSE IF TraverseColMajor(d)
  THEN [result |-> "ok", path |-> "looped-matrix-colmajor",
        dst |-> ColMajorLoop(d, s, 0, 0)]
  ELSE [result |-> "ok", path |-> "looped-matrix-rowmajor",
        dst |-> RowMajorLoop(d, s, 0, 0)]

\* the value is [result, dst, path]: how the call ended, the destination
\* after it and the copy strategy that ran
lazyAssign(d, s) ==
  IF IsVectorAtCompileTime(d) /\ IsVectorAtCompileTime(s)
  THEN IF ~VectorSizeCheck(d, s)
       THEN [result |-> "DimensionMismatch", dst |-> d, path |-> "none"]
       ELSE IF unroll(d, s)
       THEN [result |-> "ok", path |-> "unrolled-vector",
             dst |-> ei_vector_operator_equals_unroller(d, s,
                       IF unroll(d, s) THEN SizeAtCompileTime(d) ELSE Dynamic)]
       ELSE [result |-> "ok", path |-> "looped-vector",
             dst |-> VectorLoop(d, s, 0)]
  ELSE IF ~MatrixShapeCheck(d, s)
       THEN [result |-> "DimensionMismatch", dst |-> d, path |-> "none"]
       ELSE IF unroll(d, s)
       THEN [result |-> "ok", path |-> "unrolled-matrix",
             dst |-> ei_matrix_operator_equals_unroller(d, s,
                       IF unroll(d, s) THEN SizeAtCompileTime(d) ELSE Dynamic)]
       ELSE IF TraverseColMajor(d)
       THEN [result |-> "ok", path |-> "looped-matrix-colmajor",
             dst |-> ColMajorLoop(d, s, 0, 0)]
       ELSE [result |-> "ok", path |-> "looped-matrix-rowmajor",
             dst |-> RowMajorLoop(d, s, 0, 0)]

\* other.derived().eval(), called while the destination is d: a plain
\* column-major matrix of the same type extents holding the coefficients of
\* the expression
eval(d, s) ==
  [RowsAtCompileTime |-> s.RowsAtCompileTime,
   ColsAtCompileTime |-> s.ColsAtCompileTime,
   rows |-> s.rows, cols |-> s.cols, rowMajor |-> FALSE,
   CoeffReadCost |-> 1, EvalBeforeAssigning |-> FALSE,
   buf |-> [k \in 1..size(s) |->
              coeffOf(d, s, (k - 1) % s.rows, (k - 1) \div s.rows)]]

\* a variant of operator= that never evaluates the source first
OperatorEqualsNoEval(d, s) == lazyAssign(d, s)

OperatorEquals(d, s) ==
  IF s.EvalBeforeAssigning THEN lazyAssign(d, eval(d, s)) ELSE lazyAssign(d, s)

-----------------------------------------------------------------------------
(* The product expression lhs * rhs.  Product.h is not part of the sources  *)
(* at hand: the node is modelled from its description, a shape mismatch of  *)
(* a product being a DimensionMismatch raised where the expression is       *)
(* built, and a product demanding evaluation before it is assigned.         *)

Min(a, b) == IF a < b THEN a ELSE b

\* the node lhs * rhs, its coefficients laid out in column-major order
ProductNode(lhs, rhs, inner) ==
  [RowsAtCompileTime |-> lhs.RowsAtCompileTime,
   ColsAtCompileTime |-> rhs.ColsAtCompileTime,
   rows |-> lhs.rows, cols |-> rhs.cols, rowMajor |-> FALSE,
   CoeffReadCost |-> inner * (lhs.CoeffReadCost + rhs.CoeffReadCost),
   EvalBeforeAssigning |-> TRUE,
   buf |-> [k \in 1..(lhs.rows * rhs.cols) |->
              ProductCoeff(lhs, rhs, (k - 1) % lhs.rows, (k - 1) \div lhs.rows,
                           inner)]]

\* a variant that builds the node without looking at the inner extents
ProductUnchecked(lhs, rhs) ==
  [result |-> "ok", expr |-> ProductNode(lhs, rhs, Min(lhs.cols, rhs.rows))]

\* operator*: the value is [result, expr]
Product(lhs, rhs) ==
  IF lhs.cols # rhs.rows
  THEN [result |-> "DimensionMismatch", expr |-> lhs]
  ELSE [result |-> "ok", expr |-> ProductNode(lhs, rhs, lhs.cols)]

-----------------------------------------------------------------------------
(* The operands the assignment is tried on *)

Extents == 1..MaxExtent

\* a type (compile-time extents) together with the run-time extents it has
Shapes ==
  { sh \in [RowsAtCompileTime : Extents \cup {Dynamic},
            ColsAtCompileTime : Extents \cup {Dynamic},
            rows : Extents, cols : Extents] :
      /\ sh.RowsAtCompileTime \in {sh.rows, Dynamic}
      /\ sh.ColsAtCompileTime \in {sh.cols, Dynamic} }

\* the coefficient the source holds at (i, j): distinct at distinct positions
SrcValue(seed, i, j) == 100 * seed + 10 * i + j + 1

MakeDst(sh, rm) ==
  [RowsAtCompileTime |-> sh.RowsAtCompileTime,
   ColsAtCompileTime |-> sh.ColsAtCompileTime,
   rows |-> sh.rows, cols |-> sh.cols, rowMajor |-> rm,
   \* before the assignment the destination holds 0, which is no source value
   buf |-> [k \in 1..(sh.rows * sh.cols) |-> 0],
   writes |-> [k \in 1..(sh.rows * sh.cols) |-> 0]]

MakeSrc(sh, rm, cost, flag, seed) ==
  [RowsAtCompileTime |-> sh.RowsAtCompileTime,
   ColsAtCompileTime |-> sh.ColsAtCompileTime,
   rows |-> sh.rows, cols |-> sh.cols, rowMajor |-> rm,
   CoeffReadCost |-> cost, EvalBeforeAssigning |-> flag,
   buf |-> [k \in 1..(sh.rows * sh.cols) |->
              IF rm THEN SrcValue(seed, (k - 1) \div sh.cols, (k - 1) % sh.cols)
                    ELSE SrcValue(seed, (k - 1) % sh.rows, (k - 1) \div sh.rows)]]

\* the coefficient a destination that was assigned earlier holds at (i, j)
HeldValue(i, j) == 1 + i + 2 * j

\* a destination that already holds coefficients (m3 after m3 = m1)
MakeHeld(sh, rm) ==
  [MakeDst(sh, rm) EXCEPT
     !.buf = [k \in 1..(sh.rows * sh.cols) |->
                IF rm THEN HeldValue((k - 1) \div sh.cols, (k - 1) % sh.cols)
                      ELSE HeldValue((k - 1) % sh.rows, (k - 1) \div sh.rows)]]

\* the lazy product d * operand for a square operand; flag is set for the
\* plain product and unset for the product marked lazy
MakeProductWithDst(d, operand, flag) ==
  [RowsAtCompileTime |-> d.RowsAtCompileTime,
   ColsAtCompileTime |-> operand.ColsAtCompileTime,
   rows |-> d.rows, cols |-> operand.cols, rowMajor |-> FALSE,
   CoeffReadCost |-> d.cols * (1 + operand.CoeffReadCost),
   EvalBeforeAssigning |-> flag,
   buf |-> <<>>,
   operand |-> operand]

\* the operands of m3 = m3 * square and of m3 = (m3 * square).lazy()
InitAliasVars ==
  /\ \E sh \in Shapes, rm \in BOOLEAN, rmo \in BOOLEAN, flag \in BOOLEAN,
        seed \in 0..MaxSeed :
        /\ dst = MakeHeld(sh, rm)
        /\ src = MakeProductWithDst(
                   MakeHeld(sh, rm),
                   MakeSrc([RowsAtCompileTime |-> sh.ColsAtCompileTime,
                            ColsAtCompileTime |-> sh.ColsAtCompileTime,
                            rows |-> sh.cols, cols |-> sh.cols],
                           rmo, 1, FALSE, seed),
                   flag)
  /\ apc = "ready"
  /\ aresult = "none"
  /\ apath = "none"

InitAssignVars ==
  /\ \E sh \in Shapes, rm \in BOOLEAN : dst = MakeDst(sh, rm)
  /\ \E sh \in Shapes, rm \in BOOLEAN, cost \in {1, HighCost},
        flag \in BOOLEAN, seed \in 0..MaxSeed :
        src = MakeSrc(sh, rm, cost, flag, seed)
  /\ apc = "ready"
  /\ aresult = "none"
  /\ apath = "none"

\* the statement dst.lazyAssign(src)
LazyAssignCall ==
  /\ apc = "ready"
  /\ LET r == lazyAssign(dst, src) IN
       /\ dst' = r.dst
       /\ aresult' = r.result
       /\ apath' = r.path
  /\ apc' = "done"
  /\ UNCHANGED <<src, cvars>>

\* the statement dst = src
OperatorEqualsCall ==
  /\ apc = "ready"
  /\ LET r == OperatorEquals(dst, src) IN
       /\ dst' = r.dst
       /\ aresult' = r.result
       /\ apath' = r.path
  /\ apc' = "done"
  /\ UNCHANGED <<src, cvars>>

NextAssign == LazyAssignCall \/ OperatorEqualsCall

\* the statement m3 = m1 * m1, with m3 = dst and m1 = src: the product is
\* built first, and assigned if that succeeded
AssignProductCall ==
  /\ apc = "ready"
  /\ LET prod == Product(src, src) IN
       IF prod.result # "ok"
       THEN /\ aresult' = prod.result
            /\ UNCHANGED <<dst, apath>>
       ELSE LET r == OperatorEquals(dst, prod.expr) IN
              /\ dst' = r.dst
              /\ aresult' = r.result
              /\ apath' = r.path
  /\ apc' = "done"
  /\ UNCHANGED <<src, cvars>>

-----------------------------------------------------------------------------
(* Scalars of the solver: rationals <<n, d>> in lowest terms with d >= 0.   *)
(* d = 0 encodes what a floating-point division by zero gives: <<1, 0>> is  *)
(* +inf, <<-1, 0>> is -inf and <<0, 0>> is nan.                             *)

Abs(a) == IF a < 0 THEN -a ELSE a
Sign(a) == IF a < 0 THEN -1 ELSE IF a > 0 THEN 1 ELSE 0

RECURSIVE Gcd(_, _)
Gcd(a, b) == IF b = 0 THEN a ELSE Gcd(b, a % b)

\* n/d in lowest terms, d >= 0
Norm(n, d) ==
  IF d = 0 THEN <<Sign(n), 0>>
  ELSE LET g == Gcd(Abs(n), d) IN <<n \div g, d \div g>>

Rat(n, d) == IF d < 0 THEN Norm(-n, -d) ELSE Norm(n, d)

Zero == <<0, 1>>
One == <<1, 1>>
NaN == <<0, 0>>
IsNaN(a) == a = NaN
IsFinite(a) == a[2] # 0

RNeg(a) == <<-a[1], a[2]>>
RAbs(a) == <<Abs(a[1]), a[2]>>
\* the operands are reduced against each other before they are multiplied,
\* so that no intermediate is larger than the result requires
RAdd(a, b) ==
  IF IsNaN(a) \/ IsNaN(b) THEN NaN
  ELSE IF ~IsFinite(a) /\ ~IsFinite(b) THEN (IF a = b THEN a ELSE NaN)
  ELSE IF ~IsFinite(a) THEN a
  ELSE IF ~IsFinite(b) THEN b
  ELSE LET g == Gcd(a[2], b[2]) IN
         Norm(a[1] * (b[2] \div g) + b[1] * (a[2] \div g),
              (a[2] \div g) * b[2])
RSub(a, b) == RAdd(a, RNeg(b))
RMul(a, b) ==
  IF ~IsFinite(a) \/ ~IsFinite(b) THEN <<Sign(a[1]) * Sign(b[1]), 0>>
  ELSE LET g1 == Gcd(Abs(a[1]), b[2])
           g2 == Gcd(Abs(b[1]), a[2])
       IN <<(a[1] \div g1) * (b[1] \div g2), (a[2] \div g2) * (b[2] \div g1)>>
\* a / b = a * (1 / b), where 1/0 = +inf, 1/inf = 0 and 1/nan = nan
RInv(b) ==
  IF IsNaN(b) THEN NaN
  ELSE IF ~IsFinite(b) THEN Zero
  ELSE IF b[1] < 0 THEN <<-b[2], -b[1]>> ELSE <<b[2], b[1]>>
RDiv(a, b) ==
  IF IsNaN(a) \/ IsNaN(b) THEN NaN
  ELSE IF ~IsFinite(a) /\ ~IsFinite(b) THEN NaN
  ELSE IF ~IsFinite(a) THEN <<a[1] * (IF b[1] < 0 THEN -1 ELSE 1), 0>>
  ELSE IF b[1] = 0 /\ IsFinite(b) THEN <<Sign(a[1]), 0>>
  ELSE RMul(a, RInv(b))
\* n1/d1 < n2/d2 for d1, d2 > 0, by comparing the continued fractions
RECURSIVE LtFrac(_, _, _, _)
LtFrac(n1, d1, n2, d2) ==
  IF n1 \div d1 # n2 \div d2 THEN n1 \div d1 < n2 \div d2
  ELSE IF n2 % d2 = 0 THEN FALSE
  ELSE IF n1 % d1 = 0 THEN TRUE
  ELSE LtFrac(d2, n2 % d2, d1, n1 % d1)
\* comparisons: false as soon as an operand is nan
RLt(a, b) ==
  /\ ~IsNaN(a) /\ ~IsNaN(b)
  /\ IF ~IsFinite(a) \/ ~IsFinite(b)
     THEN a # b /\ (a = <<-1, 0>> \/ b = <<1, 0>>)
     ELSE LtFrac(a[1], a[2], b[1], b[2])
RLeq(a, b) == ~IsNaN(a) /\ ~IsNaN(b) /\ (a = b \/ RLt(a, b))
RGt(a, b) == RLt(b, a)

\* A RealScalar that may be a square root is kept as the number under the
\* root: Sqrt(q) stands for sqrt(q), q >= 0 or nan.
Sqrt(q) == [sqrtOf |-> q]
\* a plain scalar t >= 0 as a root
AsRoot(t) == Sqrt(RMul(t, t))
\* e <= t for a root e and a plain scalar t
RootLeq(e, t) == RLeq(Zero, t) /\ RLeq(e.sqrtOf, RMul(t, t))
RootLt(e, t) == RLt(Zero, t) /\ RLt(e.sqrtOf, RMul(t, t))

-----------------------------------------------------------------------------
(* Dense vectors (sequences of scalars) and matrices (sequences of rows) *)

RECURSIVE SumTo(_, _)
\* f[1] + ... + f[k]
SumTo(f, k) == IF k = 0 THEN Zero ELSE RAdd(SumTo(f, k - 1), f[k])

dot(a, b) == SumTo([k \in 1..Len(a) |-> RMul(a[k], b[k])], Len(a))
VAdd(a, b) == [k \in 1..Len(a) |-> RAdd(a[k], b[k])]
VSub(a, b) == [k \in 1..Len(a) |-> RSub(a[k], b[k])]
VScale(c, a) == [k \in 1..Len(a) |-> RMul(c, a[k])]
MatVec(mat, v) == [i \in 1..Len(mat) |-> dot(mat[i], v)]
setZero(n) == [k \in 1..n |-> Zero]

\* mp_matrix->selfadjointView<Lower>(): only the lower triangle is read
selfadjointView(A) ==
  [i \in 1..Len(A) |-> [j \in 1..Len(A) |-> IF j <= i THEN A[i][j] ELSE A[j][i]]]

\* rows() of the solver: the rows of the matrix it refers to
rows(A) == Len(A)

\* The default preconditioner, DiagonalPreconditioner: compute keeps the
\* inverse of the diagonal (1 where the diagonal is 0), solve scales by it.
PreconditionerCompute(A) ==
  [i \in 1..Len(A) |-> IF A[i][i] = Zero THEN One ELSE RDiv(One, A[i][i])]
PreconditionerSolve(precond, r) == [k \in 1..Len(r) |-> RMul(precond[k], r[k])]

-----------------------------------------------------------------------------
(* internal::conjugate_gradient *)

\* a variant of the loop condition that allows one pass more
CGContinueInclusive(i, maxIters, absNew, tol, absInit) ==
  i <= maxIters /\ RGt(absNew, RMul(RMul(tol, tol), absInit))

\* the loop condition
CGContinue(i, maxIters, absNew, tol, absInit) ==
  i < maxIters /\ RGt(absNew, RMul(RMul(tol, tol), absInit))

\* one pass of the loop body on the loop state [x, residual, p, absNew, i]
CGPass(mat, precond, st) ==
  LET tmp == MatVec(mat, st.p)
      alpha == RDiv(st.absNew, dot(st.p, tmp))
      xn == VAdd(st.x, VScale(alpha, st.p))
      residual == VSub(st.residual, VScale(alpha, tmp))
      z == PreconditionerSolve(precond, residual)
      absOld == st.absNew
      absNew == dot(residual, z)
      beta == RDiv(absNew, absOld)
  IN [x |-> xn, residual |-> residual, p |-> VAdd(z, VScale(beta, st.p)),
      absNew |-> absNew, i |-> st.i + 1]

RECURSIVE CGLoop(_, _, _, _, _, _)
CGLoop(mat, precond, st, maxIters, tol, absInit) ==
  IF CGContinue(st.i, maxIters, st.absNew, tol, absInit)
  THEN CGLoop(mat, precond, CGPass(mat, precond, st), maxIters, tol, absInit)
  ELSE st

\* tol_error = sqrt(abs(absNew / absInit))
CGError(absNew, absInit) == Sqrt(RAbs(RDiv(absNew, absInit)))

\* the value is [x, iters, tol_error]: the in/out parameters at return
conjugate_gradient(mat, rhs, x0, precond, iters, tol_error) ==
  LET tol == tol_error
      maxIters == iters
      residual == VSub(rhs, MatVec(mat, x0))
      p == PreconditionerSolve(precond, residual)
      absNew == dot(residual, p)
      absInit == absNew
      fin == CGLoop(mat, precond,
                    [x |-> x0, residual |-> residual, p |-> p,
                     absNew |-> absNew, i |-> 0],
                    maxIters, tol, absInit)
  IN [x |-> fin.x, iters |-> fin.i, tol_error |-> CGError(fin.absNew, absInit)]

\* a variant of the status that wants the error below the tolerance
SolveInfoStrict(error, tolerance) ==
  IF RootLt(error, tolerance) THEN "Success" ELSE "NoConvergence"

\* m_info = m_error <= m_tolerance ? Success : NoConvergence
SolveInfo(error, tolerance) ==
  IF RootLeq(error, tolerance) THEN "Success" ELSE "NoConvergence"

-----------------------------------------------------------------------------
(* The ConjugateGradient object *)

NoWrapper == [kind |-> "none"]
NoValue == [kind |-> "novalue"]
NullMatrix == <<>>

Failure(op, what) == [op |-> op, result |-> what, value |-> NoValue]
Return(op, v) == [op |-> op, result |-> "ok", value |-> v]

\* a variant of compute that does nothing on an initialized solver
computeOnce(A) ==
  IF m_isInitialized THEN <<mp_matrix, m_preconditioner, TRUE>>
  ELSE <<A, PreconditionerCompute(A), TRUE>>

\* the value is the new <<mp_matrix, m_preconditioner, m_isInitialized>>
compute(A) == <<A, PreconditionerCompute(A), TRUE>>

iterations ==
  IF ~m_isInitialized THEN Failure("iterations", "NotInitialized")
  ELSE Return("iterations", m_iterations)

error ==
  IF ~m_isInitialized THEN Failure("error", "NotInitialized")
  ELSE Return("error", m_error)

\* a variant of info() without the assertion
infoUnchecked == Return("info", m_info)

info ==
  IF ~m_isInitialized THEN Failure("info", "NotInitialized")
  ELSE Return("info", m_info)

\* a variant of solve() without the assertion on the rows of b
solveNoRowsCheck(b) ==
  IF ~m_isInitialized THEN Failure("solve", "NotInitialized")
  ELSE Return("solve", [kind |-> "solve", rhs |-> b, guess |-> <<>>,
                        guessAlive |-> TRUE])

solve(b) ==
  IF ~m_isInitialized THEN Failure("solve", "NotInitialized")
  ELSE IF rows(mp_matrix) # Len(b) THEN Failure("solve", "DimensionMismatch")
  ELSE Return("solve", [kind |-> "solve", rhs |-> b, guess |-> <<>>,
                        guessAlive |-> TRUE])

\* The wrapper's constructor takes the guess by value and binds the member
\* reference m_guess to that parameter, which is destroyed when the
\* constructor returns: guess is what the object held, guessAlive whether
\* the object m_guess refers to still exists in the returned wrapper.
solveWithGuess(b, x0) ==
  IF ~m_isInitialized THEN Failure("solveWithGuess", "NotInitialized")
  ELSE IF rows(mp_matrix) # Len(b)
       THEN Failure("solveWithGuess", "DimensionMismatch")
  ELSE Return("solveWithGuess", [kind |-> "guess", rhs |-> b, guess |-> x0,
                                 guessAlive |-> FALSE])

\* a variant of _solve that runs with the iteration budget of init()
_solveInitBudget(b, x0) ==
  LET r == conjugate_gradient(selfadjointView(mp_matrix), b, x0,
                              m_preconditioner, DefaultMaxIterations,
                              m_tolerance)
  IN [x |-> r.x, m_iterations |-> r.iters, m_error |-> r.tol_error,
      m_isInitialized |-> TRUE,
      m_info |-> SolveInfo(r.tol_error, m_tolerance)]

\* the value is [x, m_iterations, m_error, m_info, m_isInitialized] at return
_solve(b, x0) ==
  LET r == conjugate_gradient(selfadjointView(mp_matrix), b, x0,
                              m_preconditioner, m_maxIterations,
                              m_tolerance)
  IN [x |-> r.x, m_iterations |-> r.iters, m_error |-> r.tol_error,
      m_isInitialized |-> TRUE,
      m_info |-> SolveInfo(r.tol_error, m_tolerance)]

-----------------------------------------------------------------------------
(* The inputs the solver is tried on *)

RatOf(k) == <<k, 1>>
Dims == {1, 2}

\* The system matrices: symmetric positive definite, stored by their lower
\* triangle (the upper one is left 0).  The diagonal ones have a diagonal in
\* 1..MaxDiag; Coupled has the off-diagonal coefficient 1.
DiagonalMatrix(a, c) == <<<<RatOf(a), Zero>>, <<Zero, RatOf(c)>>>>
Coupled == <<<<RatOf(2), Zero>>, <<RatOf(1), RatOf(2)>>>>
Matrices ==
  { <<<<RatOf(a)>>>> : a \in 1..MaxDiag } \cup
  { DiagonalMatrix(a, c) : a \in 1..MaxDiag, c \in 1..MaxDiag } \cup
  { Coupled }

\* Right-hand sides and initial guesses have coefficients 0 or 1: the exact
\* fractions of a second CG pass on larger data exceed the integers of TLC.
Coefs == {Zero, One}
Vectors(n) == [1..n -> Coefs]
RhsVectors == UNION { Vectors(n) : n \in Dims }

Epsilon == Rat(1, 1024)
ToleranceChoices == {Rat(1, 2), Epsilon}
MaxIterationsChoices == 0..MaxItersBound

\* what a read of a member that was never written, or of an object whose
\* lifetime has ended, may give
GarbageInts == {0, 77}
GarbageErrors == {Sqrt(Zero), Sqrt(NaN)}
GarbageInfos == {"Success", "NoConvergence"}

\* dst = m_guess: the read of a live object gives its coefficients, the
\* read of a dead one gives them or anything else
GuessRead(w) ==
  IF w.guessAlive THEN {w.guess} ELSE {w.guess} \cup Vectors(Len(w.guess))

\* the vector evalTo hands to _solve
EvalStart(w) ==
  IF w.kind = "solve" THEN {setZero(rows(mp_matrix))} ELSE GuessRead(w)

InitCGVars ==
  /\ m_isInitialized = FALSE
  /\ mp_matrix = NullMatrix
  /\ m_preconditioner = <<>>
  /\ m_maxIterations = DefaultMaxIterations
  /\ m_tolerance = Epsilon
  /\ m_error \in GarbageErrors
  /\ m_iterations \in GarbageInts
  /\ m_info \in GarbageInfos
  /\ wrapper = NoWrapper
  /\ x = <<>>
  /\ last = Return("ConjugateGradient", NoValue)
  /\ runs = 0

-----------------------------------------------------------------------------
(* The calls a caller can make.  A solve wrapper is a temporary of the      *)
(* statement that created it: the statement ends by assigning it (EvalTo)   *)
(* or by dropping it (Discard) before anything else is called.              *)

outputs == <<m_error, m_iterations, m_info>>
settings == <<m_maxIterations, m_tolerance>>
binding == <<mp_matrix, m_preconditioner>>

\* a variant of the call that also clears the outputs of the last run
ComputeCallWithReset(A) ==
  /\ wrapper = NoWrapper
  /\ mp_matrix' = compute(A)[1]
  /\ m_preconditioner' = compute(A)[2]
  /\ m_isInitialized' = compute(A)[3]
  /\ m_iterations' = 0
  /\ m_error' = Sqrt(Zero)
  /\ m_info' = "Success"
  /\ last' = Return("compute", NoValue)
  /\ UNCHANGED <<settings, wrapper, x, runs, avars>>

\* the call cg.compute(A)
ComputeCallWith(A) ==
  /\ wrapper = NoWrapper
  /\ mp_matrix' = compute(A)[1]
  /\ m_preconditioner' = compute(A)[2]
  /\ m_isInitialized' = compute(A)[3]
  /\ last' = Return("compute", NoValue)
  /\ UNCHANGED <<settings, outputs, wrapper, x, runs, avars>>

ComputeCall == \E A \in Matrices : ComputeCallWith(A)

SetToleranceCall ==
  /\ wrapper = NoWrapper
  /\ \E tolerance \in ToleranceChoices : m_tolerance' = tolerance
  /\ last' = Return("setTolerance", NoValue)
  /\ UNCHANGED <<m_isInitialized, binding, m_maxIterations, outputs, wrapper,
                 x, runs, avars>>

SetMaxIterationsCall ==
  /\ wrapper = NoWrapper
  /\ \E maxIters \in MaxIterationsChoices : m_maxIterations' = maxIters
  /\ last' = Return("setMaxIterations", NoValue)
  /\ UNCHANGED <<m_isInitialized, binding, m_tolerance, outputs, wrapper,
                 x, runs, avars>>

IterationsCall ==
  /\ wrapper = NoWrapper
  /\ last' = iterations
  /\ UNCHANGED <<m_isInitialized, binding, settings, outputs, wrapper, x,
                 runs, avars>>

ErrorCall ==
  /\ wrapper = NoWrapper
  /\ last' = error
  /\ UNCHANGED <<m_isInitialized, binding, settings, outputs, wrapper, x,
                 runs, avars>>

InfoCall ==
  /\ wrapper = NoWrapper
  /\ last' = info
  /\ UNCHANGED <<m_isInitialized, binding, settings, outputs, wrapper, x,
                 runs, avars>>

\* a variant of the call that runs the algorithm at once, into x
SolveCallWithEager(b) ==
  /\ wrapper = NoWrapper
  /\ LET r == solve(b) IN
       /\ last' = r
       /\ wrapper' = IF r.result = "ok" THEN r.value ELSE NoWrapper
       /\ IF r.result = "ok"
          THEN \E s \in {_solve(b, setZero(rows(mp_matrix)))} :
                 /\ x' = s.x
                 /\ m_iterations' = s.m_iterations
                 /\ m_error' = s.m_error
                 /\ m_info' = s.m_info
          ELSE UNCHANGED <<outputs, x>>
  /\ UNCHANGED <<m_isInitialized, binding, settings, runs, avars>>

\* the call cg.solve(b)
SolveCallWith(b) ==
  /\ wrapper = NoWrapper
  /\ LET r == solve(b) IN
       /\ last' = r
       /\ wrapper' = IF r.result = "ok" THEN r.value ELSE NoWrapper
  /\ UNCHANGED <<m_isInitialized, binding, settings, outputs, x, runs, avars>>

SolveCall == \E b \in RhsVectors : SolveCallWith(b)

\* the call cg.solveWithGuess(b, x0)
SolveWithGuessCallWith(b, x0) ==
  /\ wrapper = NoWrapper
  /\ LET r == solveWithGuess(b, x0) IN
       /\ last' = r
       /\ wrapper' = IF r.result = "ok" THEN r.value ELSE NoWrapper
  /\ UNCHANGED <<m_isInitialized, binding, settings, outputs, x, runs, avars>>

SolveWithGuessCall ==
  \E b \in RhsVectors : \E x0 \in Vectors(Len(b)) : SolveWithGuessCallWith(b, x0)

\* x = <wrapper>: evalTo(x)
EvalTo ==
  /\ wrapper # NoWrapper
  /\ runs < MaxRuns
  /\ \E start \in EvalStart(wrapper) :
     \E r \in {_solve(wrapper.rhs, start)} :
         /\ x' = r.x
         /\ m_iterations' = r.m_iterations
         /\ m_error' = r.m_error
         /\ m_info' = r.m_info
         /\ m_isInitialized' = r.m_isInitialized
         /\ last' = Return("evalTo",
                           [kind |-> wrapper.kind, rhs |-> wrapper.rhs,
                            guess |-> wrapper.guess,
                            guessAlive |-> wrapper.guessAlive,
                            start |-> start,
                            tolerance |-> m_tolerance,
                            maxIterations |-> m_maxIterations])
  /\ wrapper' = NoWrapper
  /\ runs' = runs + 1
  /\ UNCHANGED <<binding, settings, avars>>

\* the statement ends without assigning the wrapper
Discard ==
  /\ wrapper # NoWrapper
  /\ wrapper' = NoWrapper
  /\ UNCHANGED <<m_isInitialized, binding, settings, outputs, x, last, runs,
                 avars>>

NextCG ==
  \/ ComputeCall \/ SetToleranceCall \/ SetMaxIterationsCall
  \/ IterationsCall \/ ErrorCall \/ InfoCall
  \/ SolveCall \/ SolveWithGuessCall \/ EvalTo \/ Discard

-----------------------------------------------------------------------------
(* The specifications *)

\* the assignment engine alone: the solver stays as constructed
InitAssign ==
  /\ InitAssignVars
  /\ InitCGVars
  /\ m_error = Sqrt(Zero) /\ m_iterations = 0 /\ m_info = "Success"

SpecAssign == InitAssign /\ [][NextAssign]_vars

\* the solver alone: no assignment statement is pending
InitCG ==
  /\ InitCGVars
  /\ dst = MakeDst([RowsAtCompileTime |-> 1, ColsAtCompileTime |-> 1,
                    rows |-> 1, cols |-> 1], FALSE)
  /\ src = MakeSrc([RowsAtCompileTime |-> 1, ColsAtCompileTime |-> 1,
                    rows |-> 1, cols |-> 1], FALSE, 1, FALSE, 0)
  /\ apc = "done"
  /\ aresult = "none"
  /\ apath = "none"

SpecCG == InitCG /\ [][NextCG]_vars

\* the assignment of an expression that reads the destination
InitAlias ==
  /\ InitAliasVars
  /\ InitCGVars
  /\ m_error = Sqrt(Zero) /\ m_iterations = 0 /\ m_info = "Success"

SpecAlias == InitAlias /\ [][NextAssign]_vars

\* the statement that assigns a product, on the operands of SpecAssign
SpecProduct == InitAssign /\ [][AssignProductCall]_vars

Init == InitAssign \/ InitAlias \/ InitCG
Next == NextAssign \/ AssignProductCall \/ NextCG
Spec == Init /\ [][Next]_vars

-----------------------------------------------------------------------------
(* Properties of the assignment engine, under SpecAssign *)

SameShape(d, s) == d.rows = s.rows /\ d.cols = s.cols
BothVectorsAtCompileTime(d, s) ==
  IsVectorAtCompileTime(d) /\ IsVectorAtCompileTime(s)
Positions(m) == (0..(m.rows - 1)) \X (0..(m.cols - 1))
Untouched(d) == \A k \in DOMAIN d.buf : d.buf[k] = 0 /\ d.writes[k] = 0

\* C1: when dst and src have the same rows and the same cols, the
\* assignment (lazyAssign or operator=) succeeds, and after it every
\* coefficient (i, j) of dst equals that of src and has been written exactly
\* once, whichever copy strategy, traversal order and storage order applied.
C1_AssignCopiesEveryCoefficientOnce ==
  (apc = "done" /\ SameShape(dst, src)) =>
     /\ aresult = "ok"
     /\ apath # "none"
     /\ \A pos \in Positions(dst) :
          /\ coeff(dst, pos[1], pos[2]) = coeff(src, pos[1], pos[2])
          /\ dst.writes[StorageIndex(dst, pos[1], pos[2])] = 1

\* a 2x2 copy by the row-major loop into a column-major destination from a
\* row-major source
C1_Witness ==
  /\ apc = "done" /\ aresult = "ok"
  /\ apath = "looped-matrix-rowmajor"
  /\ size(dst) = 4 /\ ~dst.rowMajor /\ src.rowMajor
  /\ \A pos \in Positions(dst) :
       coeff(dst, pos[1], pos[2]) = coeff(src, pos[1], pos[2])

\* C2 as stated: the assignment fails with DimensionMismatch for every pair
\* of operands whose (rows, cols) differ, on the vector path too, before any
\* coefficient of dst is written.
C2_EveryShapeMismatchFails ==
  (apc = "done" /\ ~SameShape(dst, src)) =>
     (aresult = "DimensionMismatch" /\ Untouched(dst))

\* C2 amended: the assignment fails with DimensionMismatch exactly when the
\* shapes differ on the matrix path, or the sizes differ on the vector path
\* (both operands vectors at compile time); a failed assignment has written
\* no coefficient of dst.
C2_MismatchFailsPerPath ==
  apc = "done" =>
     /\ aresult = "DimensionMismatch" <=>
          IF BothVectorsAtCompileTime(dst, src)
          THEN size(dst) # size(src)
          ELSE ~SameShape(dst, src)
     /\ aresult = "DimensionMismatch" => Untouched(dst)

\* a vector-path assignment refused for its size
C2_Witness ==
  /\ apc = "done" /\ aresult = "DimensionMismatch"
  /\ BothVectorsAtCompileTime(dst, src)
  /\ size(dst) # size(src)
  /\ Untouched(dst)

-----------------------------------------------------------------------------
(* Properties of the solver, under SpecCG *)

solverState == <<m_isInitialized, binding, settings, outputs>>
AccessorCall == IterationsCall \/ ErrorCall \/ InfoCall
AnySolveCall == SolveCall \/ SolveWithGuessCall
\* the initial residual of the solve that was evaluated last
InitialResidual ==
  VSub(last.value.rhs, MatVec(selfadjointView(mp_matrix), last.value.start))
IsZeroVector(v) == \A k \in DOMAIN v : v[k] = Zero

\* C3: on a solver on which compute was never called, iterations(), error(),
\* info(), solve(b) and solveWithGuess(b, x0) each fail with NotInitialized,
\* return neither a value nor a wrapper, and change nothing of the solver.
C3_CallsBeforeComputeFail ==
  [][(mp_matrix = NullMatrix /\ (AccessorCall \/ AnySolveCall)) =>
       /\ last'.result = "NotInitialized"
       /\ last'.value = NoValue
       /\ wrapper' = NoWrapper
       /\ ~m_isInitialized'
       /\ UNCHANGED <<solverState, x, runs>>]_vars

\* solveWithGuess has just failed on the never-computed solver
C3_Witness ==
  /\ mp_matrix = NullMatrix /\ ~m_isInitialized
  /\ last = Failure("solveWithGuess", "NotInitialized")
  /\ wrapper = NoWrapper

\* C4: iterations() and error() fail with NotInitialized in every state in
\* which no solve has run yet, also after compute(A); they succeed only once
\* a solve has run.
C4_AccessorsFailBeforeAnySolve ==
  (last.op \in {"iterations", "error"} /\ runs = 0) =>
     last.result = "NotInitialized"

\* C5: a solve whose initial residual is exactly zero ends with
\* iterations() = 0, error() = 0 and info() = Success.
C5_ZeroResidualConverges ==
  (last.op = "evalTo" /\ IsZeroVector(InitialResidual)) =>
     /\ m_iterations = 0
     /\ m_error = Sqrt(Zero)
     /\ m_info = "Success"

\* C6: solve(b) and solveWithGuess(b, x0) on an initialized solver with
\* b.rows() # A.rows() fail with DimensionMismatch, return no wrapper, run
\* nothing and leave iterations, error, info and x as they were.
C6_RowsMismatchFails ==
  [][\A b \in RhsVectors :
       (/\ m_isInitialized
        /\ Len(b) # rows(mp_matrix)
        /\ (SolveCallWith(b) \/ \E x0 \in Vectors(Len(b)) :
                                  SolveWithGuessCallWith(b, x0))) =>
          /\ last'.result = "DimensionMismatch"
          /\ last'.value = NoValue
          /\ wrapper' = NoWrapper
          /\ UNCHANGED <<solverState, x, runs>>]_vars

\* solve has refused a right-hand side after an earlier solve filled x
C6_Witness ==
  /\ last = Failure("solve", "DimensionMismatch")
  /\ runs > 0 /\ Len(x) > 0
  /\ wrapper = NoWrapper

\* C7: right after an evaluated solve, info() is Success if and only if
\* error() <= the tolerance of that solve, and NoConvergence otherwise; the
\* evaluation itself returns normally in both cases.
C7_StatusIffErrorWithinTolerance ==
  last.op = "evalTo" =>
     /\ last.result = "ok"
     /\ m_tolerance = last.value.tolerance
     /\ m_info \in {"Success", "NoConvergence"}
     /\ m_info = "Success" <=> RootLeq(m_error, last.value.tolerance)

\* a solve that stopped with its error equal to the tolerance
C7_Witness ==
  /\ last.op = "evalTo"
  /\ m_error = AsRoot(m_tolerance)
  /\ m_iterations > 0
  /\ m_info = "Success"

\* C8: a solve reports NoConvergence only with iterations() equal to the
\* maxIterations() of that solve.
C8_NotConvergedOnlyAfterBudget ==
  (last.op = "evalTo" /\ m_info = "NoConvergence") =>
     m_iterations = last.value.maxIterations

\* C9: after an evaluated solve with maxIterations >= 0,
\* 0 <= iterations() <= maxIterations(); with maxIterations = 0 no pass ran
\* and x is the vector the algorithm started from.
C9_IterationsWithinBudget ==
  (last.op = "evalTo" /\ last.value.maxIterations >= 0) =>
     /\ 0 <= m_iterations
     /\ m_iterations <= last.value.maxIterations
     /\ last.value.maxIterations = 0 =>
          (m_iterations = 0 /\ x = last.value.start)

\* a solve with maxIterations = 0 from a non-zero start and a non-zero residual
C9_Witness ==
  /\ last.op = "evalTo"
  /\ last.value.maxIterations = 0
  /\ ~IsZeroVector(last.value.start)
  /\ ~IsZeroVector(InitialResidual)
  /\ x = last.value.start

\* C10: a call of solve or solveWithGuess changes neither iterations, error,
\* info nor x and starts no run; these change only when a wrapper is
\* evaluated, which starts exactly one run; a wrapper that is dropped
\* changes nothing.
C10_SolveIsDeferred ==
  [][/\ AnySolveCall => UNCHANGED <<solverState, x, runs>>
     /\ Discard => UNCHANGED <<solverState, x, runs>>
     /\ (outputs' # outputs \/ x' # x \/ runs' # runs) =>
          /\ wrapper # NoWrapper /\ wrapper' = NoWrapper
          /\ last'.op = "evalTo"
          /\ runs' = runs + 1]_vars

\* a wrapper was returned and then dropped: no run, outputs never assigned
C10_Witness ==
  /\ last.op = "solveWithGuess" /\ last.result = "ok"
  /\ wrapper = NoWrapper
  /\ runs = 0 /\ x = <<>>

\* the vector the algorithm is meant to start from for the wrapper that was
\* evaluated last: zero for solve(b), x0 for solveWithGuess(b, x0)
IntendedStart ==
  IF last.value.kind = "solve"
  THEN setZero(Len(last.value.rhs))
  ELSE last.value.guess

\* C11: an evaluated wrapper starts the algorithm from the zero vector for
\* solve(b) and from x0 for solveWithGuess(b, x0), whatever x held before, so
\* that x, iterations, error and status are those of a run from that vector.
C11_RunStartsFromZeroOrGuess ==
  last.op = "evalTo" =>
     /\ last.value.start = IntendedStart
     /\ \E r \in {_solve(last.value.rhs, IntendedStart)} :
          /\ x = r.x
          /\ m_iterations = r.m_iterations
          /\ m_error = r.m_error
          /\ m_info = r.m_info

\* C12: setTolerance and setMaxIterations succeed in every solver state,
\* each changes its own setting only (not the initialization status, the
\* matrix, the preconditioner, the last outputs or x); a setting changes in
\* no other call, so it stays until it is set again; and an evaluated solve
\* runs with the tolerance and the budget that are set when it is evaluated.
C12_SettingsChangeAloneAndApply ==
  [][/\ SetToleranceCall =>
          /\ last' = Return("setTolerance", NoValue)
          /\ UNCHANGED <<m_isInitialized, binding, m_maxIterations, outputs,
                         x, runs>>
     /\ SetMaxIterationsCall =>
          /\ last' = Return("setMaxIterations", NoValue)
          /\ UNCHANGED <<m_isInitialized, binding, m_tolerance, outputs,
                         x, runs>>
     /\ m_tolerance' # m_tolerance => last'.op = "setTolerance"
     /\ m_maxIterations' # m_maxIterations => last'.op = "setMaxIterations"
     /\ (wrapper # NoWrapper /\ last'.op = "evalTo") =>
          \E r \in {conjugate_gradient(selfadjointView(mp_matrix),
                                       wrapper.rhs, last'.value.start,
                                       m_preconditioner, m_maxIterations,
                                       m_tolerance)} :
             /\ x' = r.x
             /\ m_iterations' = r.iters
             /\ m_error' = r.tol_error
             /\ m_info' = SolveInfo(r.tol_error, m_tolerance)]_vars

\* a second solve that ran with a tolerance and a budget other than those
\* of init(): it stopped on the budget 0 with the error 1 above the tolerance
C12_Witness ==
  /\ last.op = "evalTo" /\ runs = 2
  /\ m_tolerance = Rat(1, 2) /\ m_maxIterations = 0
  /\ m_iterations = 0 /\ m_error = Sqrt(One)
  /\ m_info = "NoConvergence"

\* C13: compute(A) succeeds in every solver state and leaves the solver
\* initialized, bound to A, with the preconditioner computed from A; the
\* matrix and the preconditioner change in no other call and the solver
\* never becomes uninitialized again; solve and solveWithGuess fail with
\* NotInitialized exactly when compute was never called; and an evaluated
\* solve runs on the matrix of the most recent compute and the
\* preconditioner computed from it.
C13_ComputeRebindsAndSolveFollows ==
  [][/\ \A A \in Matrices :
          ComputeCallWith(A) =>
             /\ last' = Return("compute", NoValue)
             /\ m_isInitialized'
             /\ mp_matrix' = A
             /\ m_preconditioner' = PreconditionerCompute(A)
     /\ binding' # binding => last'.op = "compute"
     /\ m_isInitialized => m_isInitialized'
     /\ m_isInitialized <=> mp_matrix # NullMatrix
     /\ AnySolveCall =>
          (last'.result = "NotInitialized" <=> mp_matrix = NullMatrix)
     /\ (wrapper # NoWrapper /\ last'.op = "evalTo") =>
          \E r \in {conjugate_gradient(selfadjointView(mp_matrix),
                                       wrapper.rhs, last'.value.start,
                                       PreconditionerCompute(mp_matrix),
                                       m_maxIterations, m_tolerance)} :
             /\ x' = r.x
             /\ Len(x') = rows(mp_matrix)
             /\ m_iterations' = r.iters
             /\ m_error' = r.tol_error]_vars

\* compute has been called again after a solve on a matrix of another size
C13_Witness ==
  /\ last.op = "compute" /\ runs > 0
  /\ m_isInitialized
  /\ Len(x) # rows(mp_matrix)
  /\ m_preconditioner = PreconditionerCompute(mp_matrix)

-----------------------------------------------------------------------------
(* Further properties of the assignment engine, under SpecAssign *)

\* the destination as it was before the assignment
Fresh(d) ==
  [d EXCEPT !.buf = [k \in DOMAIN d.buf |-> 0],
            !.writes = [k \in DOMAIN d.writes |-> 0]]
StaticShape(m) == SizeAtCompileTime(m) # Dynamic
WrittenOnce(d) == \A k \in DOMAIN d.writes : d.writes[k] = 1

\* C14: for a destination of static shape, whatever the cost of the source
\* (below, at and past the unrolling limit), the unrolled copy and the
\* run-time loops applied to the same destination and source give the same
\* destination, which is the one the assignment produced; the unrolled copy
\* writes each of the Size coefficients once.
C14_UnrolledEqualsLooped ==
  (apc = "done" /\ aresult = "ok" /\ StaticShape(dst)) =>
     IF BothVectorsAtCompileTime(dst, src)
     THEN \E u \in {ei_vector_operator_equals_unroller(
                       Fresh(dst), src, SizeAtCompileTime(dst))} :
            /\ u = VectorLoop(Fresh(dst), src, 0)
            /\ u = dst
            /\ WrittenOnce(u)
     ELSE \E u \in {ei_matrix_operator_equals_unroller(
                       Fresh(dst), src, SizeAtCompileTime(dst))} :
            /\ u = ColMajorLoop(Fresh(dst), src, 0, 0)
            /\ u = RowMajorLoop(Fresh(dst), src, 0, 0)
            /\ u = dst
            /\ WrittenOnce(u)

\* a static destination copied by the unroller exactly at the limit, or
\* copied by the loop because Size * cost is past the limit
C14_Witness ==
  /\ apc = "done" /\ aresult = "ok" /\ StaticShape(dst)
  /\ \/ /\ apath = "unrolled-vector"
        /\ SizeAtCompileTime(dst) * src.CoeffReadCost = EIGEN_UNROLLING_LIMIT
     \/ /\ apath = "looped-matrix-colmajor"
        /\ SizeAtCompileTime(dst) * src.CoeffReadCost > EIGEN_UNROLLING_LIMIT


\* C15: assigning the product m1 * m1 of a non-square m1 (lhs.cols() #
\* rhs.rows()) ends in a DimensionMismatch, no copy strategy runs and no
\* coefficient of the destination is written.
C15_ProductInnerMismatchFails ==
  (apc = "done" /\ src.cols # src.rows) =>
     /\ aresult = "DimensionMismatch"
     /\ apath = "none"
     /\ Untouched(dst)

\* m3 = m1 * m1 has failed for a non-square m1 and an m3 of the shape of m1,
\* which is also the shape the product would have had
C15_Witness ==
  /\ apc = "done" /\ aresult = "DimensionMismatch"
  /\ src.cols # src.rows
  /\ SameShape(dst, src)
  /\ dst.RowsAtCompileTime = src.RowsAtCompileTime
  /\ dst.ColsAtCompileTime = src.ColsAtCompileTime


-----------------------------------------------------------------------------
(* Further properties of the solver, under SpecCG *)

\* b - A x for the solve that was evaluated last
FinalResidual ==
  VSub(last.value.rhs, MatVec(selfadjointView(mp_matrix), x))

\* C16: for a symmetric positive-definite matrix of size >= 2 and any
\* right-hand side b, x = solve(b) with the default preconditioner and the
\* default iteration budget ends with info() = Success within the budget and
\* with ||b - A x|| <= tolerance * ||b||.
C16_SolveConverges ==
  (/\ last.op = "evalTo" /\ last.value.kind = "solve"
   /\ rows(mp_matrix) >= 2
   /\ last.value.maxIterations = DefaultMaxIterations) =>
     /\ m_info = "Success"
     /\ m_iterations <= last.value.maxIterations
     /\ RLeq(dot(FinalResidual, FinalResidual),
             RMul(RMul(last.value.tolerance, last.value.tolerance),
                  dot(last.value.rhs, last.value.rhs)))


-----------------------------------------------------------------------------
(* Properties of the choice of the copy strategy, under SpecAssign *)

VectorPaths == {"unrolled-vector", "looped-vector"}
MatrixPaths == {"unrolled-matrix", "looped-matrix-colmajor",
                "looped-matrix-rowmajor"}
StaticVector(m) == m.RowsAtCompileTime = 1 \/ m.ColsAtCompileTime = 1

\* C17 as stated: the vector path is taken if and only if dst and src are
\* both vectors, be it known at compile time or only at run time.
C17_VectorPathIffVectors ==
  (apc = "done" /\ aresult = "ok") =>
     (apath \in VectorPaths <=> (isVector(dst) /\ isVector(src)))

\* C17 amended: the vector path (copy by index, equal sizes required) is
\* taken if and only if dst and src both have a compile-time extent equal
\* to 1; every other pair, also one of vectors known only at run time,
\* takes the matrix path (copy by (row, col), equal rows and cols required).
C17_VectorPathIffStaticVectors ==
  apc = "done" =>
     /\ aresult \in {"ok", "DimensionMismatch"}
     /\ aresult = "ok" =>
          IF StaticVector(dst) /\ StaticVector(src)
          THEN apath \in VectorPaths /\ size(dst) = size(src)
          ELSE apath \in MatrixPaths /\ SameShape(dst, src)
     /\ aresult = "DimensionMismatch" =>
          IF StaticVector(dst) /\ StaticVector(src)
          THEN size(dst) # size(src)
          ELSE ~SameShape(dst, src)

\* two vectors of the same shape, not both known to be vectors at compile
\* time, copied on the matrix path
C17_Witness ==
  /\ apc = "done" /\ aresult = "ok"
  /\ isVector(dst) /\ isVector(src) /\ size(dst) = 2
  /\ ~(StaticVector(dst) /\ StaticVector(src))
  /\ apath \in MatrixPaths


UnrolledPaths == {"unrolled-vector", "unrolled-matrix"}
LoopedPaths == {"looped-vector", "looped-matrix-colmajor",
                "looped-matrix-rowmajor"}
\* the operand that operator= hands to lazyAssign
Assigned(d, s) == IF s.EvalBeforeAssigning THEN eval(d, s) ELSE s
\* what the claim says of a successful lazyAssign of s to d that took path
UnrollsAsClaimed(d, s, dnew, path) ==
  /\ path \in UnrolledPaths <=>
       /\ d.RowsAtCompileTime # Dynamic /\ d.ColsAtCompileTime # Dynamic
       /\ d.RowsAtCompileTime * d.ColsAtCompileTime * s.CoeffReadCost
            <= EIGEN_UNROLLING_LIMIT
  /\ path \notin UnrolledPaths => path \in LoopedPaths
  /\ \A k \in DOMAIN dnew.writes : dnew.writes[k] = 1

-----------------------------------------------------------------------------
(* Properties of an assignment whose source reads the destination, under    *)
(* SpecAlias                                                                *)

\* the destination as it was before the assignment of SpecAlias
Held(d) ==
  [d EXCEPT !.buf = MakeHeld(d, d.rowMajor).buf,
            !.writes = [k \in DOMAIN d.writes |-> 0]]

\* the place of (i, j) in the order in which the strategy writes
WriteRank(path, d, i, j) ==
  IF path = "looped-matrix-rowmajor" THEN i * d.cols + j ELSE j * d.rows + i

\* the destination at the moment pos is written: the coefficients written
\* before pos hold their final value (that of dnew), the others the old one
AtWrite(d, dnew, path, pos) ==
  [d EXCEPT !.buf =
     [k \in DOMAIN d.buf |->
        IF \E q \in Positions(d) :
              /\ StorageIndex(d, q[1], q[2]) = k
              /\ WriteRank(path, d, q[1], q[2])
                   < WriteRank(path, d, pos[1], pos[2])
        THEN dnew.buf[k] ELSE d.buf[k]]]

\* every coefficient of dnew is that of s computed from d as a whole
CopiedFromTemporary(d, s, dnew) ==
  \A pos \in Positions(d) :
     coeff(dnew, pos[1], pos[2]) = coeffOf(d, s, pos[1], pos[2])

\* every coefficient of dnew is that of s read when it was written
ReadWhenWritten(d, s, dnew, path) ==
  \A pos \in Positions(d) :
     coeff(dnew, pos[1], pos[2]) =
        coeffOf(AtWrite(d, dnew, path, pos), s, pos[1], pos[2])

\* C19: operator= with a source whose evaluate-before-assigning flag is set
\* leaves in dst the coefficients of the source computed from the contents
\* dst had before the assignment, also when the source reads dst; without
\* the flag, and always in lazyAssign, every coefficient of the source is
\* read at the moment its destination coefficient is written.
C19_FlagEvaluatesSourceFirst ==
  [][/\ (OperatorEqualsCall /\ src.EvalBeforeAssigning /\ aresult' = "ok") =>
          CopiedFromTemporary(dst, src, dst')
     /\ (OperatorEqualsCall /\ ~src.EvalBeforeAssigning /\ aresult' = "ok") =>
          ReadWhenWritten(dst, src, dst', apath')
     /\ (LazyAssignCall /\ aresult' = "ok") =>
          ReadWhenWritten(dst, src, dst', apath')]_vars

\* dst = dst * operand with the flag set: dst holds the product of its old
\* contents, which is not what the copy without a temporary would have left
C19_Witness ==
  /\ apc = "done" /\ aresult = "ok"
  /\ RefersToDst(src) /\ src.EvalBeforeAssigning
  /\ CopiedFromTemporary(Held(dst), src, dst)
  /\ dst.buf # lazyAssign(Held(dst), src).dst.buf


-----------------------------------------------------------------------------
(* Lifetime of the guess, under SpecCG *)

\* C20: when the wrapper returned by solveWithGuess(b, x0) is evaluated, the
\* object its guess refers to is still alive, and the destination starts
\* with the coefficients x0 had at the call.
C20_GuessAliveWhenEvaluated ==
  (last.op = "evalTo" /\ last.value.kind = "guess") =>
     /\ last.value.guessAlive
     /\ last.value.start = last.value.guess


-----------------------------------------------------------------------------
(* The outputs of the last run across compute, under SpecCG *)

\* C21: compute(A) changes the matrix, the preconditioner and the
\* initialized flag only; m_iterations, m_error and m_info change in no call
\* but the evaluation of a solve, so after solve; compute(A2) the accessors
\* iterations(), error() and info() succeed and return what that solve left.
C21_ComputeKeepsOutputs ==
  [][/\ \A A \in Matrices :
          ComputeCallWith(A) => UNCHANGED <<outputs, settings, x, runs>>
     /\ outputs' # outputs => (wrapper # NoWrapper /\ last'.op = "evalTo")
     /\ (m_isInitialized /\ IterationsCall) =>
          last' = Return("iterations", m_iterations)
     /\ (m_isInitialized /\ ErrorCall) => last' = Return("error", m_error)
     /\ (m_isInitialized /\ InfoCall) => last' = Return("info", m_info)]_vars

\* iterations() returns the 2 passes of a solve on a 2x2 matrix after
\* compute has bound the solver to a 1x1 matrix
C21_Witness ==
  /\ last = Return("iterations", 2)
  /\ runs > 0 /\ Len(x) = 2
  /\ rows(mp_matrix) = 1
  /\ m_iterations = 2

=============================================================================
